---- MODULE Spec2Model ----
(***************************************************************************)
(* SimpleNVGPUInfo (main.cpp): a single-threaded console program that      *)
(* initializes NVAPI, enumerates the physical GPUs, prints a static report *)
(* per GPU and then prints a live status report per GPU once a second,     *)
(* forever.                                                                *)
(*                                                                         *)
(* The NVAPI provider is the environment: every provider call draws its    *)
(* status and its output values from a small set.  An NvU32 is a pair of   *)
(* 16-bit halves [hi, lo], so that 32-bit unsigned arithmetic wraps as it  *)
(* does in the program.  Text written to stdout/stderr is a sequence of    *)
(* tokens, one per fprintf field, carrying the values the format prints.   *)
(***************************************************************************)
EXTENDS Integers, Sequences, FiniteSets, TLC

VARIABLES
    pc,          \* position of main: "start", "enumerate", "info", "status", "sleep", "exited"
    exitCode,    \* value returned by main; -1 while main has not returned
    nvapi,       \* provider state: "uninitialized", "initialized", "failed", "unloaded"
    initCalls,   \* number of NvAPI_Initialize calls made so far
    unloadCalls, \* number of NvAPI_Unload calls made so far
    gpus,        \* std::vector<GPUInfo> gpus of main
    idx,         \* position of the running range-for over gpus
    out,         \* tokens written to stdout by the last step
    err,         \* tokens written to stderr by the last step
    calls,       \* external calls (NVAPI, Sleep) made by the last step, with their results
    reported,    \* handles reported so far in the current phase (static phase, or current pass)
    pass,        \* line counts of the current pass over the catalog
    everCalled,  \* names of the provider functions called so far
    printed      \* whether anything has been written to stdout so far

vars == <<pc, exitCode, nvapi, initCalls, unloadCalls, gpus, idx, out, err, calls, reported, pass,
          everCalled, printed>>

----------------------------------------------------------------------------
\* Bounds of the model

\* largest number of physical GPUs the provider lists
MaxGPUs == 2

----------------------------------------------------------------------------
\* Program constants

NVAPI_OK == 0
NVAPI_ERROR == -1
EXIT_FAILURE == 1
NotReturned == -1
SleepMs == 1000
GiBThreshold == 1048576
MiBThreshold == 1024
Half == 65536

----------------------------------------------------------------------------
\* NvU32: a 32-bit unsigned value as two 16-bit halves

U32(n) == [hi |-> (n \div Half) % Half, lo |-> n % Half]

Sub32(a, b) ==
    LET d == a.lo - b.lo
        borrow == IF d < 0 THEN 1 ELSE 0
    IN  [hi |-> (a.hi - b.hi - borrow) % Half, lo |-> d % Half]

Gt32(a, b) == a.hi > b.hi \/ (a.hi = b.hi /\ a.lo > b.lo)

\* n / d rounded to the nearest integer, ties to even
RoundDiv(n, d) ==
    LET q == n \div d
        r == n % d
    IN  IF 2 * r > d \/ (2 * r = d /\ q % 2 = 1) THEN q + 1 ELSE q

\* static_cast<float>(NvU32): the value rounded to 24 significant bits, ties
\* to even.  The result is the float's exact (integral) value; hi may be 65536.
FloatQuantum(hi) ==
    IF hi < 256 THEN 1
    ELSE IF hi < 512 THEN 2
    ELSE IF hi < 1024 THEN 4
    ELSE IF hi < 2048 THEN 8
    ELSE IF hi < 4096 THEN 16
    ELSE IF hi < 8192 THEN 32
    ELSE IF hi < 16384 THEN 64
    ELSE IF hi < 32768 THEN 128
    ELSE 256

ToFloat(v) ==
    LET q == FloatQuantum(v.hi)
        r == v.lo % q
        down == v.lo - r
        up == 2 * r > q \/ (2 * r = q /\ (down \div q) % 2 = 1)
        lo2 == IF up THEN down + q ELSE down
    IN  IF lo2 = Half THEN [hi |-> v.hi + 1, lo |-> 0] ELSE [hi |-> v.hi, lo |-> lo2]

----------------------------------------------------------------------------
\* Provider responses (the environment)

ErrorStatuses == {NVAPI_ERROR}
Status == {NVAPI_OK} \cup ErrorStatuses

Domains == {"GRAPHICS", "MEMORY"}

\* NV_GPU_CLOCK_FREQUENCIES after "= {}": nothing present
ZeroClocks == [d \in Domains |-> [bIsPresent |-> FALSE, frequency |-> 0]]

\* frequencies in kHz
ClockSamples ==
    { [GRAPHICS |-> [bIsPresent |-> TRUE, frequency |-> 1815000],
       MEMORY |-> [bIsPresent |-> FALSE, frequency |-> 0]] }

ClockResponses ==
    {[status |-> NVAPI_OK, frequencies |-> f] : f \in ClockSamples}
    \cup {[status |-> e, frequencies |-> ZeroClocks] : e \in ErrorStatuses}

ThermalResponses ==
    {[status |-> NVAPI_OK, count |-> 0, currentTemp |-> 0],
     [status |-> NVAPI_OK, count |-> 1, currentTemp |-> 65]}
    \cup {[status |-> e, count |-> 0, currentTemp |-> 0] : e \in ErrorStatuses}

\* wrote: whether the call stored a value through its output pointer
TachResponses ==
    {[status |-> NVAPI_OK, wrote |-> TRUE, value |-> v] : v \in {0, 1500}}
    \cup {[status |-> e, wrote |-> FALSE, value |-> 0] : e \in ErrorStatuses}

\* capacities and available amounts in KiB, on both sides of the two
\* thresholds of FormatSizeKB and of each other
VramValues == {U32(1048576), U32(1048577)}
AvailValues == {U32(0), U32(1047552), U32(1048577)}

MemoryResponses ==
    {[status |-> NVAPI_OK, curAvailableDedicatedVideoMemory |-> a] : a \in AvailValues}
    \cup {[status |-> e, curAvailableDedicatedVideoMemory |-> U32(0)] : e \in ErrorStatuses}

\* the text NvAPI_GPU_GetFullName stores for a handle
FullName(h) == <<"NVIDIA GPU", h>>

\* the answer of NvAPI_GPU_GetFullName for handle h, given its status
NameResponse(h, status) ==
    [status |-> status, name |-> IF status = NVAPI_OK THEN FullName(h) ELSE <<>>]

VramResponses ==
    {[status |-> NVAPI_OK, size |-> v] : v \in VramValues}
    \cup {[status |-> e, size |-> U32(0)] : e \in ErrorStatuses}

\* what the provider answers for the listed handles 1..n, in listing order
DeviceLists(n) ==
    {[h \in 1..n |-> [handle |-> h, name |-> NameResponse(h, ns[h]), vram |-> vs[h]]] :
        ns \in [1..n -> Status], vs \in [1..n -> VramResponses]}

\* NvAPI_EnumPhysicalGPUs: a status and the handles 1..n in provider order
EnumResponses ==
    {[status |-> s, num_gpus |-> n] : s \in Status, n \in 0..MaxGPUs}

Call(api, gpu, arg, resp) == [api |-> api, gpu |-> gpu, arg |-> arg, resp |-> resp]

TelemetryAPIs ==
    {"NvAPI_GPU_GetAllClockFrequencies", "NvAPI_GPU_GetThermalSettings",
     "NvAPI_GPU_GetTachReading", "NvAPI_GPU_GetMemoryInfo"}

----------------------------------------------------------------------------
\* Output tokens

NameLine(name) == [kind |-> "name", name |-> name]
RuleLine == [kind |-> "rule"]
NewLine == [kind |-> "newline"]

\* PrintError: "<msg>Error 0x%08X\n" on stderr, the status cast to unsigned
PrintError(error, msg) == <<[kind |-> "error", msg |-> msg, code |-> U32(error)]>>

\* The float quotient x / 1000.0f of a float x > 0 with integral value x.hi *
\* 65536 + x.lo, as [m, s]: the quotient is m / 2^s, m the 24-bit significand
\* of the correctly rounded (ties to even) quotient.  q is the quotient so far
\* with s bits after the binary point, r the remainder.
RECURSIVE DivBits(_, _, _)
DivBits(q, r, s) ==
    IF q >= 8388608
    THEN [m |-> IF 2 * r > 1000 \/ (2 * r = 1000 /\ q % 2 = 1) THEN q + 1 ELSE q, s |-> s]
    ELSE DivBits(2 * q + (IF 2 * r >= 1000 THEN 1 ELSE 0),
                 IF 2 * r >= 1000 THEN 2 * r - 1000 ELSE 2 * r,
                 s + 1)

FloatDiv1000(x) ==
    LET top == (x.hi % 1000) * Half + x.lo
    IN  DivBits((x.hi \div 1000) * Half + top \div 1000, top % 1000, 0)

\* printf's "%.2f" of the float m / 2^s below 2^23, as hundredths: the exact
\* value rounded to two decimals, ties to even
Hundredths(f) ==
    IF f.s >= 32 THEN 0
    ELSE IF f.s = 31 THEN (IF f.m * 100 > 1073741824 THEN 1 ELSE 0)
    ELSE RoundDiv(f.m * 100, 2 ^ f.s)

\* "<not present>", or "%.2f MHz" of static_cast<float>(frequency) / 1000.0f
FormatClockSpeed(frequencies, domain) ==
    IF ~frequencies[domain].bIsPresent
    THEN [unit |-> "<not present>", scaled |-> 0, decimals |-> 0]
    ELSE [unit |-> "MHz", decimals |-> 2,
          scaled |-> IF frequencies[domain].frequency = 0 THEN 0
                     ELSE Hundredths(FloatDiv1000(ToFloat(U32(frequencies[domain].frequency))))]

\* mutation: thresholds compared with >= instead of >
FormatSizeKB_inclusive(size_in_kb) ==
    IF ~Gt32(U32(GiBThreshold), size_in_kb)
    THEN LET f == ToFloat(size_in_kb)
         IN  [unit |-> "GiB", decimals |-> 2,
              scaled |-> (f.hi \div 16) * 100
                         + RoundDiv(((f.hi % 16) * Half + f.lo) * 100, GiBThreshold)]
    ELSE IF ~Gt32(U32(MiBThreshold), size_in_kb)
    THEN [unit |-> "MiB", decimals |-> 2,
          scaled |-> RoundDiv((size_in_kb.hi * Half + size_in_kb.lo) * 100, MiBThreshold)]
    ELSE [unit |-> "KiB", decimals |-> 0, scaled |-> size_in_kb.lo]

\* "%.2f GiB", "%.2f MiB" or "%u KiB"; scaled is the printed number times 10^decimals
FormatSizeKB(size_in_kb) ==
    IF Gt32(size_in_kb, U32(GiBThreshold))
    THEN LET f == ToFloat(size_in_kb)
         IN  [unit |-> "GiB", decimals |-> 2,
              scaled |-> (f.hi \div 16) * 100
                         + RoundDiv(((f.hi % 16) * Half + f.lo) * 100, GiBThreshold)]
    ELSE IF Gt32(size_in_kb, U32(MiBThreshold))
    THEN [unit |-> "MiB", decimals |-> 2,
          scaled |-> RoundDiv((size_in_kb.hi * Half + size_in_kb.lo) * 100, MiBThreshold)]
    ELSE [unit |-> "KiB", decimals |-> 0, scaled |-> size_in_kb.lo]

----------------------------------------------------------------------------
\* Reports.  Each takes the device record and the provider's answers to the
\* calls it makes, and yields what it writes and the calls it made.

Emit(o, e, c) == [out |-> o, err |-> e, calls |-> c]

Join(a, b) == [out |-> a.out \o b.out, err |-> a.err \o b.err, calls |-> a.calls \o b.calls]

ClockCall(gpu, type, resp) ==
    Call("NvAPI_GPU_GetAllClockFrequencies", gpu.physical_gpu, type, resp)

\* one line of the static clock section
StaticClockLine(type, domain, base, boost) ==
    [kind |-> "clockline", type |-> type,
     speed |-> FormatClockSpeed(base.frequencies, domain),
     boost |-> IF boost.status = NVAPI_OK
               THEN <<FormatClockSpeed(boost.frequencies, domain)>>
               ELSE <<>>]

PrintGPUClockInfo(gpu, base, boost) ==
    IF base.status # NVAPI_OK
    THEN Emit(<<>>,
              PrintError(base.status, "NvAPI_GPU_GetAllClockFrequencies failed:"),
              <<ClockCall(gpu, "BASE_CLOCK", base)>>)
    ELSE Emit(<<StaticClockLine("Graphics clock speed", "GRAPHICS", base, boost),
                StaticClockLine("Memory clock speed", "MEMORY", base, boost)>>,
              <<>>,
              <<ClockCall(gpu, "BASE_CLOCK", base), ClockCall(gpu, "BOOST_CLOCK", boost)>>)

PrintGPUInfo(gpu, base, boost) ==
    Join(Emit(<<NameLine(gpu.name), RuleLine>>, <<>>, <<>>),
         PrintGPUClockInfo(gpu, base, boost))

\* one "type: speed\t" field of the live clocks
ClockField(type, domain, frequencies) ==
    [kind |-> "clock", type |-> type, speed |-> FormatClockSpeed(frequencies, domain)]

PrintGPUCurrentClocks(gpu, resp) ==
    IF resp.status # NVAPI_OK
    THEN Emit(<<>>,
              PrintError(resp.status, "NvAPI_GPU_GetAllClockFrequencies failed:"),
              <<ClockCall(gpu, "CURRENT_FREQ", resp)>>)
    ELSE Emit(<<ClockField("Graphics clock speed", "GRAPHICS", resp.frequencies),
                ClockField("Memory clock speed", "MEMORY", resp.frequencies)>>,
              <<>>,
              <<ClockCall(gpu, "CURRENT_FREQ", resp)>>)

ThermalCall(gpu, resp) == Call("NvAPI_GPU_GetThermalSettings", gpu.physical_gpu, "", resp)

\* mutation: a failed query also prints a placeholder field
PrintGPUCurrentTemperature_placeholder(gpu, resp) ==
    IF resp.status # NVAPI_OK
    THEN Emit(<<[kind |-> "temperature", celsius |-> 0]>>,
              PrintError(resp.status, "NvAPI_GPU_GetAllClockFrequencies failed:"),
              <<ThermalCall(gpu, resp)>>)
    ELSE IF resp.count > 0
    THEN Emit(<<[kind |-> "temperature", celsius |-> resp.currentTemp]>>, <<>>,
              <<ThermalCall(gpu, resp)>>)
    ELSE Emit(<<>>, <<>>, <<ThermalCall(gpu, resp)>>)

PrintGPUCurrentTemperature(gpu, resp) ==
    IF resp.status # NVAPI_OK
    THEN Emit(<<>>,
              PrintError(resp.status, "NvAPI_GPU_GetAllClockFrequencies failed:"),
              <<ThermalCall(gpu, resp)>>)
    ELSE IF resp.count > 0
    THEN Emit(<<[kind |-> "temperature", celsius |-> resp.currentTemp]>>, <<>>,
              <<ThermalCall(gpu, resp)>>)
    ELSE Emit(<<>>, <<>>, <<ThermalCall(gpu, resp)>>)

TachCall(gpu, resp) == Call("NvAPI_GPU_GetTachReading", gpu.physical_gpu, "", resp)

\* mutation: the status is checked like the other metrics' statuses
PrintGPUCurrentFanSpeed_checked(gpu, resp) ==
    IF resp.status # NVAPI_OK
    THEN Emit(<<>>, PrintError(resp.status, "NvAPI_GPU_GetTachReading failed:"),
              <<TachCall(gpu, resp)>>)
    ELSE Emit(<<[kind |-> "fan", rpm |-> resp.value]>>, <<>>, <<TachCall(gpu, resp)>>)

\* fan_speed starts as 0 and the status of the call is not looked at
PrintGPUCurrentFanSpeed(gpu, resp) ==
    LET fan_speed == IF resp.wrote THEN resp.value ELSE 0
    IN  Emit(<<[kind |-> "fan", rpm |-> fan_speed]>>, <<>>, <<TachCall(gpu, resp)>>)

MemoryCall(gpu, resp) == Call("NvAPI_GPU_GetMemoryInfo", gpu.physical_gpu, "", resp)

PrintGPUCurrentMemoryUsage(gpu, resp) ==
    IF resp.status # NVAPI_OK
    THEN Emit(<<>>,
              PrintError(resp.status, "NvAPI_GPU_GetAllClockFrequencies failed:"),
              <<MemoryCall(gpu, resp)>>)
    ELSE LET used_memory == Sub32(gpu.vram_in_kb, resp.curAvailableDedicatedVideoMemory)
         IN  Emit(<<[kind |-> "memory", used |-> FormatSizeKB(used_memory),
                     total |-> FormatSizeKB(gpu.vram_in_kb)]>>,
                  <<>>,
                  <<MemoryCall(gpu, resp)>>)

Text(o) == Emit(o, <<>>, <<>>)

\* mutation: a failed current-clock query abandons the rest of the report
PrintGPUStatus_abort(gpu, clocks, thermal, tach, memory) ==
    IF clocks.status # NVAPI_OK
    THEN Join(Text(<<NameLine(gpu.name), RuleLine>>), PrintGPUCurrentClocks(gpu, clocks))
    ELSE Join(Text(<<NameLine(gpu.name), RuleLine>>),
         Join(PrintGPUCurrentClocks(gpu, clocks),
         Join(Text(<<NewLine>>),
         Join(PrintGPUCurrentTemperature(gpu, thermal),
         Join(PrintGPUCurrentFanSpeed(gpu, tach),
         Join(Text(<<NewLine>>),
         Join(PrintGPUCurrentMemoryUsage(gpu, memory),
              Text(<<NewLine, RuleLine, NewLine>>))))))))

PrintGPUStatus(gpu, clocks, thermal, tach, memory) ==
    Join(Text(<<NameLine(gpu.name), RuleLine>>),
    Join(PrintGPUCurrentClocks(gpu, clocks),
    Join(Text(<<NewLine>>),
    Join(PrintGPUCurrentTemperature(gpu, thermal),
    Join(PrintGPUCurrentFanSpeed(gpu, tach),
    Join(Text(<<NewLine>>),
    Join(PrintGPUCurrentMemoryUsage(gpu, memory),
         Text(<<NewLine, RuleLine, NewLine>>))))))))

----------------------------------------------------------------------------
\* Enumeration

GPUInfo(h, name, vram) == [physical_gpu |-> h, name |-> name, vram_in_kb |-> vram]

NameCall(d) == Call("NvAPI_GPU_GetFullName", d.handle, "", d.name)
VramCall(d) == Call("NvAPI_GPU_GetPhysicalFrameBufferSize", d.handle, "", d.vram)

\* mutation: a device whose capacity resolution failed is added anyway
EnumerateDevice_partial(d) ==
    IF d.name.status # NVAPI_OK
    THEN [gpus |-> <<>>, err |-> PrintError(d.name.status, "NvAPI_GPU_GetFullName failed: "),
          calls |-> <<NameCall(d)>>]
    ELSE [gpus |-> <<GPUInfo(d.handle, d.name.name, d.vram.size)>>,
          err |-> IF d.vram.status # NVAPI_OK
                  THEN PrintError(d.vram.status, "NvAPI_GPU_GetPhysicalFrameBufferSize failed: ")
                  ELSE <<>>,
          calls |-> <<NameCall(d), VramCall(d)>>]

\* one iteration of the loop of EnumerateGPUs
EnumerateDevice(d) ==
    IF d.name.status # NVAPI_OK
    THEN [gpus |-> <<>>, err |-> PrintError(d.name.status, "NvAPI_GPU_GetFullName failed: "),
          calls |-> <<NameCall(d)>>]
    ELSE IF d.vram.status # NVAPI_OK
    THEN [gpus |-> <<>>,
          err |-> PrintError(d.vram.status, "NvAPI_GPU_GetPhysicalFrameBufferSize failed: "),
          calls |-> <<NameCall(d), VramCall(d)>>]
    ELSE [gpus |-> <<GPUInfo(d.handle, d.name.name, d.vram.size)>>, err |-> <<>>,
          calls |-> <<NameCall(d), VramCall(d)>>]

RECURSIVE EnumerateLoop(_, _)
EnumerateLoop(devices, i) ==
    IF i > Len(devices)
    THEN [gpus |-> <<>>, err |-> <<>>, calls |-> <<>>]
    ELSE LET head == EnumerateDevice(devices[i])
             rest == EnumerateLoop(devices, i + 1)
         IN  [gpus |-> head.gpus \o rest.gpus, err |-> head.err \o rest.err,
              calls |-> head.calls \o rest.calls]

\* listing: the answer of NvAPI_EnumPhysicalGPUs; devices: the provider's
\* answers for the listed handles, in listing order
EnumerateGPUs(listing, devices) ==
    LET enumCall == Call("NvAPI_EnumPhysicalGPUs", 0, "", listing)
    IN  IF listing.status # NVAPI_OK
        THEN [gpus |-> <<>>, err |-> PrintError(listing.status, "NvAPI_EnumPhysicalGPUs failed: "),
              calls |-> <<enumCall>>]
        ELSE LET loop == EnumerateLoop(devices, 1)
             IN  [gpus |-> loop.gpus, err |-> loop.err, calls |-> <<enumCall>> \o loop.calls]

----------------------------------------------------------------------------
\* main

APIs(cs) == {cs[i].api : i \in DOMAIN cs} \ {"Sleep"}

CountKind(seq, k) == Cardinality({i \in DOMAIN seq : seq[i].kind = k})

Failed(cs) == Cardinality({i \in DOMAIN cs : cs[i].resp.status # NVAPI_OK})

PassZero == [names |-> 0, clockFields |-> 0, diags |-> 0, clockFails |-> 0, otherFails |-> 0]

\* the line counts of the pass after one more live status report r
PassAfter(p, r) ==
    LET clockCalls == SelectSeq(r.calls, LAMBDA c : c.api = "NvAPI_GPU_GetAllClockFrequencies")
        otherCalls == SelectSeq(r.calls, LAMBDA c : c.api \in
                          {"NvAPI_GPU_GetThermalSettings", "NvAPI_GPU_GetMemoryInfo"})
    IN  [names |-> p.names + CountKind(r.out, "name"),
         clockFields |-> p.clockFields + (IF CountKind(r.out, "clock") = 2 THEN 1 ELSE 0),
         diags |-> p.diags + Len(r.err),
         clockFails |-> p.clockFails + Failed(clockCalls),
         otherFails |-> p.otherFails + Failed(otherCalls)]

Init ==
    /\ pc = "start"
    /\ exitCode = NotReturned
    /\ nvapi = "uninitialized"
    /\ initCalls = 0
    /\ unloadCalls = 0
    /\ gpus = <<>>
    /\ idx = 0
    /\ out = <<>>
    /\ err = <<>>
    /\ calls = <<>>
    /\ reported = <<>>
    /\ pass = PassZero
    /\ everCalled = {}
    /\ printed = FALSE

\* mutation: main goes on to enumerate after a failed initialization
AfterInitialize_ignore(status) == "enumerate"

\* where main goes after NvAPI_Initialize
AfterInitialize(status) == IF status # NVAPI_OK THEN "exited" ELSE "enumerate"

\* main: NvAPI_Initialize and the check of its status
Initialize ==
    /\ pc = "start"
    /\ \E status \in Status :
        /\ calls' = <<Call("NvAPI_Initialize", 0, "", [status |-> status])>>
        /\ initCalls' = initCalls + 1
        /\ nvapi' = IF status = NVAPI_OK THEN "initialized" ELSE "failed"
        /\ err' = IF status # NVAPI_OK THEN PrintError(status, "NVAPI_Initialize failed: ")
                  ELSE <<>>
        /\ pc' = AfterInitialize(status)
        /\ exitCode' = IF AfterInitialize(status) = "exited" THEN EXIT_FAILURE ELSE exitCode
    /\ out' = <<>>
    /\ everCalled' = everCalled \cup APIs(calls')
    /\ UNCHANGED <<unloadCalls, gpus, idx, reported, pass, printed>>

\* mutation: main does not look at gpus.empty()
AfterEnumerate_nocheck(found) == "info"

\* where main goes after EnumerateGPUs
AfterEnumerate(found) == IF found = <<>> THEN "exited" ELSE "info"

\* main: EnumerateGPUs, and the exit when it found nothing
Enumerate ==
    /\ pc = "enumerate"
    /\ \E listing \in EnumResponses :
       \E devices \in DeviceLists(listing.num_gpus) :
        LET e == EnumerateGPUs(listing, devices)
            exits == AfterEnumerate(e.gpus) = "exited"
        IN  /\ gpus' = e.gpus
            /\ err' = e.err \o (IF exits THEN <<[kind |-> "text", msg |-> "No GPUs found."]>>
                                ELSE <<>>)
            /\ calls' = e.calls \o (IF exits THEN <<Call("NvAPI_Unload", 0, "", [status |-> NVAPI_OK])>>
                                    ELSE <<>>)
            /\ unloadCalls' = IF exits THEN unloadCalls + 1 ELSE unloadCalls
            /\ nvapi' = IF exits THEN "unloaded" ELSE nvapi
            /\ exitCode' = IF exits THEN EXIT_FAILURE ELSE exitCode
            /\ pc' = AfterEnumerate(e.gpus)
    /\ out' = <<>>
    /\ idx' = 0
    /\ everCalled' = everCalled \cup APIs(calls')
    /\ UNCHANGED <<initCalls, reported, pass, printed>>

\* main: one iteration of the loop over gpus that prints the static reports
Info ==
    /\ pc = "info"
    /\ idx < Len(gpus)
    /\ \E base \in ClockResponses, boost \in ClockResponses :
        LET r == PrintGPUInfo(gpus[idx + 1], base, boost)
        IN  /\ out' = r.out
            /\ err' = r.err
            /\ calls' = r.calls
    /\ reported' = IF idx + 1 = Len(gpus) THEN <<>>
                   ELSE Append(reported, gpus[idx + 1].physical_gpu)
    /\ idx' = IF idx + 1 = Len(gpus) THEN 0 ELSE idx + 1
    /\ pc' = IF idx + 1 = Len(gpus) THEN "status" ELSE "info"
    /\ everCalled' = everCalled \cup APIs(calls')
    /\ printed' = (printed \/ out' # <<>>)
    /\ UNCHANGED <<exitCode, nvapi, initCalls, unloadCalls, gpus, pass>>

\* mutation: the inner loop stops one device short of the end of the catalog
PassEnds_short(i, n) == i + 1 >= n

\* the inner range-for of the sampling loop ends after the last record
PassEnds(i, n) == i = n

\* main: one iteration of the inner loop of the sampling loop
StatusReport ==
    /\ pc = "status"
    /\ idx < Len(gpus)
    /\ \E clocks \in ClockResponses, thermal \in ThermalResponses,
          tach \in TachResponses, memory \in MemoryResponses :
        LET r == PrintGPUStatus(gpus[idx + 1], clocks, thermal, tach, memory)
        IN  /\ out' = r.out
            /\ err' = r.err
            /\ calls' = r.calls
            /\ pass' = PassAfter(pass, r)
    /\ reported' = Append(reported, gpus[idx + 1].physical_gpu)
    /\ idx' = idx + 1
    /\ pc' = IF PassEnds(idx + 1, Len(gpus)) THEN "sleep" ELSE "status"
    /\ everCalled' = everCalled \cup APIs(calls')
    /\ printed' = (printed \/ out' # <<>>)
    /\ UNCHANGED <<exitCode, nvapi, initCalls, unloadCalls, gpus>>

\* main: Sleep(1000) and the start of the next pass of for (;;)
Sleep ==
    /\ pc = "sleep"
    /\ calls' = <<Call("Sleep", 0, SleepMs, [status |-> NVAPI_OK])>>
    /\ out' = <<>>
    /\ err' = <<>>
    /\ idx' = 0
    /\ reported' = <<>>
    /\ pass' = PassZero
    /\ pc' = "status"
    /\ UNCHANGED <<exitCode, nvapi, initCalls, unloadCalls, gpus, everCalled, printed>>

Next == Initialize \/ Enumerate \/ Info \/ StatusReport \/ Sleep

Spec == Init /\ [][Next]_vars

\* a live status report that main has reached is carried out: the step of the
\* inner loop that advances idx.  Under Spec only StatusReport takes it, and
\* StatusReport is enabled whenever pc = "status".
ReportReturns == pc = "status" /\ idx' = idx + 1

\* every provider call and every Sleep of the sampling loop returns, so the
\* loop keeps running
FairSpec == Spec /\ WF_idx(ReportReturns) /\ WF_vars(Sleep)

----------------------------------------------------------------------------
\* Vocabulary of the properties

Running == pc \in {"status", "sleep"}

\* out, err and calls are those of a live status report, of gpus[idx]
LiveReported == Running /\ idx > 0

\* out, err and calls are those of a static info report, of StaticGpu
StaticReported ==
    \/ pc = "info" /\ idx > 0
    \/ pc = "status" /\ idx = 0 /\ calls # <<>> /\ calls[1].api # "Sleep"

StaticGpu == IF pc = "info" THEN gpus[idx] ELSE gpus[Len(gpus)]

\* gpus, err and calls are those of EnumerateGPUs
Enumerated == calls # <<>> /\ calls[1].api = "NvAPI_EnumPhysicalGPUs"

Handles(g) == [i \in DOMAIN g |-> g[i].physical_gpu]

CallsOf(api) == SelectSeq(calls, LAMBDA c : c.api = api)

\* the answer to the only call of api in the last step
Answer(api) == CallsOf(api)[1].resp

Tokens(k) == SelectSeq(out, LAMBDA t : t.kind = k)

----------------------------------------------------------------------------
\* C1: a failed metric query never stops a pass.  Every live status report
\* starts with the device's name line and issues all four metric queries for
\* that device whatever their outcomes; at the end of a pass every cataloged
\* device has been reported, and when exactly one current-clock query failed
\* and every other query succeeded the pass holds N name lines, N-1 clock
\* fields and exactly one diagnostic line.
C1_PassSurvivesFailure ==
    /\ LiveReported =>
        /\ out # <<>> /\ out[1] = NameLine(gpus[idx].name)
        /\ [i \in DOMAIN calls |-> calls[i].api] =
             <<"NvAPI_GPU_GetAllClockFrequencies", "NvAPI_GPU_GetThermalSettings",
               "NvAPI_GPU_GetTachReading", "NvAPI_GPU_GetMemoryInfo">>
        /\ \A i \in DOMAIN calls : calls[i].gpu = gpus[idx].physical_gpu
        /\ pass.names = idx
    /\ pc = "sleep" =>
        /\ reported = Handles(gpus)
        /\ pass.names = Len(gpus)
        /\ (pass.clockFails = 1 /\ pass.otherFails = 0) =>
              (pass.clockFields = Len(gpus) - 1 /\ pass.diags = 1)

C1_Witness ==
    /\ pc = "sleep"
    /\ Len(gpus) >= 2
    /\ pass.clockFails = 1
    /\ pass.otherFails = 0
    /\ pass.names = Len(gpus)
    /\ pass.clockFields = Len(gpus) - 1
    /\ pass.diags = 1

----------------------------------------------------------------------------
\* C2: when NvAPI_Initialize fails, or the catalog is empty after the
\* enumeration, main has returned EXIT_FAILURE, nothing was ever written to
\* stdout, no telemetry query was ever issued, and in the empty-catalog case
\* the last line on stderr is "No GPUs found."; main takes no step after it
\* has returned.
C2_FatalState ==
    (nvapi = "failed" \/ (pc \notin {"start", "enumerate"} /\ gpus = <<>>)) =>
        /\ pc = "exited"
        /\ exitCode = EXIT_FAILURE
        /\ ~printed
        /\ everCalled \cap TelemetryAPIs = {}
        /\ reported = <<>>
        /\ pass = PassZero
        /\ nvapi # "failed" =>
              (err # <<>> /\ err[Len(err)] = [kind |-> "text", msg |-> "No GPUs found."])

\* C2: a fatal startup state is always as C2_FatalState says, and main takes
\* no step once it has returned.
C2_FatalStartup == []C2_FatalState /\ [][pc # "exited"]_vars

C2_Witness ==
    /\ pc = "exited"
    /\ nvapi = "unloaded"
    /\ gpus = <<>>
    /\ Enumerated
    /\ calls[1].resp.status = NVAPI_OK
    /\ calls[1].resp.num_gpus = 2
    /\ err[Len(err)] = [kind |-> "text", msg |-> "No GPUs found."]

----------------------------------------------------------------------------
\* C3: after EnumerateGPUs the catalog is empty when the listing call failed;
\* otherwise every listed handle was asked for its name, and the catalog is
\* exactly the listed handles, in listing order, whose name and capacity
\* resolutions both succeeded, each with the name and the capacity the
\* provider answered.
NameAnswers(h) ==
    {calls[i].resp : i \in {j \in DOMAIN calls :
                               calls[j].api = "NvAPI_GPU_GetFullName" /\ calls[j].gpu = h}}

VramAnswers(h) ==
    {calls[i].resp : i \in {j \in DOMAIN calls :
                               calls[j].api = "NvAPI_GPU_GetPhysicalFrameBufferSize"
                               /\ calls[j].gpu = h}}

Resolved(h) ==
    /\ \E n \in NameAnswers(h) : n.status = NVAPI_OK
    /\ \E v \in VramAnswers(h) : v.status = NVAPI_OK

\* C3: the catalog after EnumerateGPUs is empty after a failed listing, and
\* otherwise the resolved handles in listing order with the answered name and
\* capacity.
C3_CatalogIsResolvedSubsequence ==
    Enumerated =>
        LET listing == calls[1].resp
            listed == [i \in 1..listing.num_gpus |-> i]
        IN  IF listing.status # NVAPI_OK
            THEN /\ gpus = <<>>
                 /\ \A i \in DOMAIN calls :
                       calls[i].api \in {"NvAPI_EnumPhysicalGPUs", "NvAPI_Unload"}
            ELSE /\ \A h \in 1..listing.num_gpus : Cardinality(NameAnswers(h)) = 1
                 /\ Handles(gpus) = SelectSeq(listed, Resolved)
                 /\ \A i \in DOMAIN gpus :
                       /\ NameAnswers(gpus[i].physical_gpu) =
                             {[status |-> NVAPI_OK, name |-> gpus[i].name]}
                       /\ VramAnswers(gpus[i].physical_gpu) =
                             {[status |-> NVAPI_OK, size |-> gpus[i].vram_in_kb]}

C3_Witness ==
    /\ Enumerated
    /\ calls[1].resp.status = NVAPI_OK
    /\ calls[1].resp.num_gpus = 2
    /\ ~Resolved(1)
    /\ \E v \in VramAnswers(1) : v.status # NVAPI_OK
    /\ Handles(gpus) = <<2>>

----------------------------------------------------------------------------
\* C4: the capacity tiers.  In every memory field both formatted values (the
\* used and the total capacity) are in GiB iff the value is above 1,048,576
\* KiB, in MiB iff it is above 1,024 and at most 1,048,576, and in whole KiB
\* iff it is at most 1,024.
Tier(v) ==
    IF Gt32(v, U32(1048576)) THEN "GiB"
    ELSE IF Gt32(v, U32(1024)) THEN "MiB"
    ELSE "KiB"

MemoryReported == LiveReported /\ Len(Tokens("memory")) = 1

TotalKB == gpus[idx].vram_in_kb

UsedKB == Sub32(TotalKB, Answer("NvAPI_GPU_GetMemoryInfo").curAvailableDedicatedVideoMemory)

\* C4: both values of every memory field are printed in the tier of Tier.
C4_CapacityTiers ==
    MemoryReported =>
        LET field == Tokens("memory")[1]
        IN  /\ field.total.unit = Tier(TotalKB)
            /\ field.used.unit = Tier(UsedKB)
            /\ field.total.decimals = (IF field.total.unit = "KiB" THEN 0 ELSE 2)
            /\ field.used.decimals = (IF field.used.unit = "KiB" THEN 0 ELSE 2)

\* total 1,048,576 KiB is printed in MiB and used 1,024 KiB in whole KiB
C4_Witness ==
    /\ MemoryReported
    /\ TotalKB = U32(1048576)
    /\ UsedKB = U32(1024)
    /\ Tokens("memory")[1].total = [unit |-> "MiB", decimals |-> 2, scaled |-> 102400]
    /\ Tokens("memory")[1].used = [unit |-> "KiB", decimals |-> 0, scaled |-> 1024]

----------------------------------------------------------------------------
\* C5: the static info report.
StaticQueries == CallsOf("NvAPI_GPU_GetAllClockFrequencies")

StaticHeader ==
    /\ Len(out) >= 2
    /\ out[1] = NameLine(StaticGpu.name)
    /\ out[2] = RuleLine

\* C5: in the static info report the name header is always printed, and a
\* failure of either clock query (base or boost) prints a diagnostic line and
\* suppresses the clock section.  PrintGPUClockInfo tests only the status of
\* the base-clock query; the status of the boost-clock query only decides
\* has_boost_frequencies, so a failed boost query leaves both clock lines on
\* stdout, without the boost annotation, and stderr empty.
C5_AnyClockFailureSuppresses ==
    StaticReported =>
        /\ StaticHeader
        /\ Failed(StaticQueries) > 0 => (Len(err) = 1 /\ Len(Tokens("clockline")) = 0)

----------------------------------------------------------------------------
\* C6: the sampling loop.  Once main is in the sampling loop it stays there
\* and the catalog never changes; a pass reports the cataloged devices one by
\* one in catalog order, each exactly once, then sleeps 1000 ms exactly once
\* and starts the next pass; and, every call returning, every pass ends,
\* every sleep is followed by a new pass and every cataloged device is
\* reported again and again.
C6_PassShape ==
    Running =>
        /\ gpus # <<>>
        /\ exitCode = NotReturned
        /\ idx <= Len(gpus)
        /\ reported = SubSeq(Handles(gpus), 1, idx)
        /\ (pc = "sleep") <=> (idx = Len(gpus))

C6_LoopStep ==
    Running =>
        /\ Running'
        /\ gpus' = gpus
        /\ pc = "sleep" =>
              /\ pc' = "status"
              /\ idx' = 0
              /\ reported' = <<>>
              /\ calls' = <<Call("Sleep", 0, 1000, [status |-> NVAPI_OK])>>
        /\ pc = "status" =>
              /\ idx' = idx + 1
              /\ reported' = Append(reported, gpus[idx + 1].physical_gpu)
              /\ out'[1] = NameLine(gpus[idx + 1].name)
              /\ \A i \in DOMAIN calls' : calls'[i].api # "Sleep"

\* C6: the pass shape always holds, every step of the loop is a step of a
\* pass, every pass ends in a sleep, every sleep starts a new pass, and every
\* cataloged device is reported in every pass.
C6_SamplingLoop ==
    /\ []C6_PassShape
    /\ [][C6_LoopStep]_vars
    /\ (Running ~> (pc = "sleep"))
    /\ ((pc = "sleep") ~> (pc = "status" /\ idx = 0))
    /\ \A h \in 1..MaxGPUs :
          (Running /\ idx = 0 /\ \E i \in DOMAIN gpus : gpus[i].physical_gpu = h)
              ~> (LiveReported /\ gpus[idx].physical_gpu = h)

\* a pass over a catalog of two devices has ended, main has slept and the
\* next pass is about to start
C6_Witness ==
    /\ pc = "status"
    /\ Len(gpus) = 2
    /\ idx = 0
    /\ reported = <<>>
    /\ calls = <<Call("Sleep", 0, 1000, [status |-> NVAPI_OK])>>

----------------------------------------------------------------------------
\* The three metrics of a live status report that report their failures
ReportingCalls ==
    SelectSeq(calls, LAMBDA c : c.api \in {"NvAPI_GPU_GetAllClockFrequencies",
                                           "NvAPI_GPU_GetThermalSettings",
                                           "NvAPI_GPU_GetMemoryInfo"})

FailedReporting == SelectSeq(ReportingCalls, LAMBDA c : c.resp.status # NVAPI_OK)

\* one diagnostic line per failed query, in the order of the queries, each
\* with the status of its query
DiagnosticsMatchFailures ==
    /\ Len(err) = Len(FailedReporting)
    /\ \A i \in DOMAIN err :
          err[i].kind = "error" /\ err[i].code = U32(FailedReporting[i].resp.status)

----------------------------------------------------------------------------
\* C7: the fan-speed step of every live status report writes exactly one
\* fan-speed field and no diagnostic line (the diagnostic lines of the report
\* are those of the failed clock, thermal and memory queries), whatever the
\* tachometer call answers; the field shows the value the call stored, and 0
\* RPM when the call failed without storing one.
C7_FanSpeedNeverFails ==
    LiveReported =>
        LET tach == Answer("NvAPI_GPU_GetTachReading")
            fans == Tokens("fan")
        IN  /\ Len(CallsOf("NvAPI_GPU_GetTachReading")) = 1
            /\ Len(fans) = 1
            /\ DiagnosticsMatchFailures
            /\ tach.status = NVAPI_OK => fans[1].rpm = tach.value
            /\ (tach.status # NVAPI_OK /\ ~tach.wrote) => fans[1].rpm = 0

\* the tachometer call failed, every other query succeeded: 0 RPM and an
\* empty stderr
C7_Witness ==
    /\ LiveReported
    /\ Answer("NvAPI_GPU_GetTachReading").status # NVAPI_OK
    /\ FailedReporting = <<>>
    /\ Tokens("fan") = <<[kind |-> "fan", rpm |-> 0]>>
    /\ err = <<>>

----------------------------------------------------------------------------
\* C8: the provider's lifetime.  NvAPI_Initialize is called once, as the
\* first provider call; every other provider call is made while the provider
\* is initialized (never after a failed initialization, never after
\* NvAPI_Unload); NvAPI_Unload is called at most once, as the last provider
\* call, and never once main is in the sampling loop, which main never leaves.
C8_Counts ==
    /\ initCalls <= 1
    /\ unloadCalls <= 1
    /\ everCalled # {} => (initCalls = 1 /\ "NvAPI_Initialize" \in everCalled)
    /\ pc # "start" => initCalls = 1
    /\ Running => (unloadCalls = 0 /\ nvapi = "initialized")
    /\ (nvapi = "failed" \/ nvapi = "unloaded") => pc = "exited"

C8_CallStep ==
    /\ "NvAPI_Initialize" \in APIs(calls') => (nvapi = "uninitialized" /\ everCalled = {})
    /\ APIs(calls') \ {"NvAPI_Initialize"} # {} => nvapi = "initialized"
    /\ \A i \in DOMAIN calls' : calls'[i].api = "NvAPI_Unload" => i = Len(calls')
    /\ Running => (Running' /\ unloadCalls' = unloadCalls)

\* C8: the call counts always hold and every step makes its provider calls
\* within the provider's lifetime.
C8_ProviderLifetime == []C8_Counts /\ [][C8_CallStep]_vars

\* a whole pass was made with the provider initialized once and never unloaded
C8_Witness ==
    /\ pc = "sleep"
    /\ initCalls = 1
    /\ unloadCalls = 0
    /\ nvapi = "initialized"
    /\ TelemetryAPIs \subseteq everCalled

----------------------------------------------------------------------------
\* C9: field or diagnostic, per metric.
ClockOK == Answer("NvAPI_GPU_GetAllClockFrequencies").status = NVAPI_OK
ThermalOK == Answer("NvAPI_GPU_GetThermalSettings").status = NVAPI_OK
MemoryOK == Answer("NvAPI_GPU_GetMemoryInfo").status = NVAPI_OK

\* C9 as claimed: in every live status report each of the three metrics
\* writes its field iff its query succeeded and one diagnostic line iff its
\* query failed, for every provider answer.
C9_FieldOrDiagnostic ==
    LiveReported =>
        /\ Len(ReportingCalls) = 3
        /\ DiagnosticsMatchFailures
        /\ Len(Tokens("clock")) = (IF ClockOK THEN 2 ELSE 0)
        /\ Len(Tokens("temperature")) = (IF ThermalOK THEN 1 ELSE 0)
        /\ Len(Tokens("memory")) = (IF MemoryOK THEN 1 ELSE 0)

\* C9 as amended: the same, except that a successful thermal query that
\* reports zero sensors writes neither a temperature field nor a diagnostic
\* line.
C9_FieldOrDiagnosticUnlessNoSensor ==
    LiveReported =>
        /\ Len(ReportingCalls) = 3
        /\ DiagnosticsMatchFailures
        /\ Len(Tokens("clock")) = (IF ClockOK THEN 2 ELSE 0)
        /\ Len(Tokens("temperature")) =
              (IF ThermalOK /\ Answer("NvAPI_GPU_GetThermalSettings").count > 0 THEN 1 ELSE 0)
        /\ ThermalOK /\ Answer("NvAPI_GPU_GetThermalSettings").count > 0 =>
              Tokens("temperature")[1].celsius
                  = Answer("NvAPI_GPU_GetThermalSettings").currentTemp
        /\ Len(Tokens("memory")) = (IF MemoryOK THEN 1 ELSE 0)

\* a thermal query succeeded with zero sensors while the memory query failed
C9_Witness ==
    /\ LiveReported
    /\ ThermalOK
    /\ Answer("NvAPI_GPU_GetThermalSettings").count = 0
    /\ Tokens("temperature") = <<>>
    /\ ClockOK
    /\ ~MemoryOK
    /\ Len(err) = 1
    /\ Tokens("memory") = <<>>

----------------------------------------------------------------------------
Le32(a, b) == ~Gt32(a, b)

\* C10: for every successful memory query the used value that is formatted is
\* the total capacity minus the available capacity and lies between 0 and the
\* total capacity, also when the provider reports more available memory than
\* the capacity recorded at enumeration.
C10_UsedWithinTotal ==
    MemoryReported =>
        /\ Tokens("memory")[1].used = FormatSizeKB(UsedKB)
        /\ Le32(UsedKB, TotalKB)

====
